---- MODULE Spec2Model ----
(***************************************************************************)
(* Model of the playback session of streamer.py (class Streamer), its      *)
(* progress store (watch_positions table, load_pos / save_pos) and the      *)
(* media transport (QMediaPlayer) it reacts to.                             *)
(*                                                                          *)
(* Units.  The transport reports positions and durations in milliseconds;   *)
(* the store keeps seconds (pos/1000).  Every position of the model is a    *)
(* whole number of seconds (PositionsWholeSeconds), so the float quotient   *)
(* pos/1000 is the exact integer ToSecs(pos) and int(secs*1000) is exact.   *)
(***************************************************************************)
EXTENDS Integers, Sequences, FiniteSets, TLC

\* ---------------------------------------------------------------- constants
WATCH_THRESH == 45000
MIN_PROGRESS_S == 15
COUNT_MS == 5000
COUNT_START == 5
\* the +/-5000 ms of rewind() and skip()
SKIP_MS == 5000
\* QSlider range 0..1000 of the seek slider
SLIDER_MAX == 1000

\* ------------------------------------------------------------------- bounds
\* cd_sec has no lower limit in the code; the countdown tick is cut off
\* once cd_sec has fallen to -MaxUnderflow
MaxUnderflow == 1

\* the catalog: one show whose files last 55 s and 10 s; scan_eps lists
\* them, sorted, as the paths 1 and 2
EpDurations == <<55000, 10000>>
NumEps == Len(EpDurations)
Eps == 1..NumEps
EpDuration(e) == EpDurations[e]
\* slider values a drag can deliver: the two ends of the slider
SliderVals == {0, SLIDER_MAX}

VARIABLES
    view,           \* self.stack.currentIndex(): 0 shows, 1 episodes, 2 player
    fullscreen,     \* self.isFullScreen()
    current_show,   \* self.current_show (0: attribute not set yet)
    current_path,   \* self.current_path (0: attribute not set yet)
    ep_list,        \* self.ep_list items: the marker shown for each episode
    tbl,            \* rows of table watch_positions
    next_resume,    \* self.next_resume, seconds
    duration,       \* self.duration, ms
    cd_started,     \* self.cd_started
    cd_sec,         \* self.cd_sec
    timer_active,   \* self.cd_timer.isActive()
    toast_visible,  \* self.toast.isVisible()
    player_pos,     \* self.player.position(), ms
    pb,             \* self.player.playbackState()
    end_reported,   \* positionChanged was emitted for the end position held
    last,           \* the handler that ran last, when it is one of obs
    obs             \* the handlers whose runs are recorded in last

vars == <<view, fullscreen, current_show, current_path, ep_list, tbl,
          next_resume, duration, cd_started, cd_sec, timer_active,
          toast_visible, player_pos, pb, end_reported, last, obs>>

\* ------------------------------------------------------------ unit changes
\* pos/1000 on a whole-second position
ToSecs(ms) == ms \div 1000
\* int(secs*1000)
ToMs(secs) == secs * 1000

Max(a, b) == IF a >= b THEN a ELSE b
Min(a, b) == IF a <= b THEN a ELSE b

\* --------------------------------------------------------- progress store
\* SELECT last_pos,watched ... WHERE path=?  ; fetchone()
Rows(t, path) == {r \in t : r.path = path}

load_pos(t, path) ==
    IF Rows(t, path) # {}
    THEN LET row == CHOOSE r \in Rows(t, path) : TRUE
         IN  <<row.last_pos, row.watched>>
    ELSE <<0, FALSE>>

\* (mutant: INSERT OR REPLACE, which puts watched back to its default)
save_pos_replace(t, path, secs) ==
    (t \ Rows(t, path))
        \cup {[path |-> path, last_pos |-> secs, watched |-> FALSE]}

\* INSERT ... ON CONFLICT(path) DO UPDATE SET last_pos=excluded.last_pos
save_pos_only(t, path, secs) ==
    IF Rows(t, path) # {}
    THEN {IF r.path = path THEN [r EXCEPT !.last_pos = secs] ELSE r : r \in t}
    ELSE t \cup {[path |-> path, last_pos |-> secs, watched |-> FALSE]}

\* INSERT ... ON CONFLICT(path) DO UPDATE SET last_pos=..., watched=...
save_pos_wat(t, path, secs, wat) ==
    IF Rows(t, path) # {}
    THEN {IF r.path = path
          THEN [r EXCEPT !.last_pos = secs, !.watched = wat]
          ELSE r : r \in t}
    ELSE t \cup {[path |-> path, last_pos |-> secs, watched |-> wat]}

\* save_pos(path, secs, wat=None): wat is <<>> for None, <<b>> for b supplied
save_pos(t, path, secs, wat) ==
    IF wat = <<>>
    THEN save_pos_only(t, path, secs)
    ELSE save_pos_wat(t, path, secs, wat[1])

\* ------------------------------------------------------ episode list view
\* (mutant: > for >=)
MarkerStrict(rec) ==
    IF rec[2] THEN "done"
    ELSE IF rec[1] > MIN_PROGRESS_S THEN "in-progress"
    ELSE "unseen"

\* the prefix refresh_episodes puts before a title
Marker(rec) ==
    IF rec[2] THEN "done"
    ELSE IF rec[1] >= MIN_PROGRESS_S THEN "in-progress"
    ELSE "unseen"

\* the items refresh_episodes builds from the store
ListItems(t) == [e \in Eps |-> Marker(load_pos(t, e))]

\* -------------------------------------------------------------------- Init
Init0 ==
    /\ view = 0
    /\ fullscreen = FALSE
    /\ current_show = 0
    /\ current_path = 0
    /\ ep_list = <<>>
    /\ tbl = {}
    /\ next_resume = 0
    /\ duration = 0
    /\ cd_started = FALSE
    /\ cd_sec = COUNT_START
    /\ timer_active = FALSE
    /\ toast_visible = FALSE
    /\ player_pos = 0
    /\ pb = "Stopped"
    /\ end_reported = FALSE
    /\ last = [op |-> "init", how |-> ""]

\* a handler's run is recorded in last when the handler is observed: its
\* name, and the input it got or the branch it took
Logged(op, how) ==
    /\ last' = IF op \in obs THEN [op |-> op, how |-> how]
                             ELSE [op |-> "other", how |-> ""]
    /\ UNCHANGED obs

\* ------------------------------------------------------------- transport
\* QMediaPlayer.setPosition: the position is kept inside the loaded media
SetPosition(p) == Max(0, Min(p, EpDuration(current_path)))

\* a position set by the program is reported by the transport later; a
\* position that did not move was reported before, or is not reported
Moved ==
    end_reported' = IF player_pos' = player_pos THEN end_reported ELSE FALSE

\* ----------------------------------------------------- show / episode list
\* on_show: one show in the catalog
on_show ==
    /\ view = 0
    /\ current_show' = 1
    /\ ep_list' = ListItems(tbl)
    /\ view' = 1
    /\ UNCHANGED end_reported
    /\ Logged("on_show", "")
    /\ UNCHANGED <<fullscreen, current_path, tbl, next_resume, duration,
                   cd_started, cd_sec, timer_active, toast_visible,
                   player_pos, pb>>

\* the Refresh button of the episode list
refresh_episodes ==
    /\ view = 1
    /\ ep_list' = ListItems(tbl)
    /\ UNCHANGED end_reported
    /\ Logged("refresh_episodes", "")
    /\ UNCHANGED <<view, fullscreen, current_show, current_path, tbl,
                   next_resume, duration, cd_started, cd_sec, timer_active,
                   toast_visible, player_pos, pb>>

\* "Back to Shows" button, or Escape in the episode list
back_to_shows ==
    /\ view = 1
    /\ view' = 0
    /\ UNCHANGED end_reported
    /\ Logged("back_to_shows", "")
    /\ UNCHANGED <<fullscreen, current_show, current_path, ep_list, tbl,
                   next_resume, duration, cd_started, cd_sec, timer_active,
                   toast_visible, player_pos, pb>>

\* (mutant: the watched flag is ignored)
ResumeOffsetIgnoresWatched(t, path) == load_pos(t, path)[1]

\* the resume offset on_ep, prev_ep and next_ep compute for the target
ResumeOffset(t, path) ==
    LET rec == load_pos(t, path)
    IN  IF rec[2] THEN 0 ELSE rec[1]

\* start_play(path): load the source, play, reset the countdown
start_play(path) ==
    /\ current_path' = path
    /\ view' = 2
    /\ player_pos' = 0
    /\ pb' = "Playing"
    /\ cd_started' = FALSE
    /\ toast_visible' = FALSE
    /\ timer_active' = FALSE
    /\ end_reported' = FALSE

\* on_ep: an item of the episode list is activated
on_ep(idx) ==
    /\ view = 1
    /\ next_resume' = ResumeOffset(tbl, idx)
    /\ start_play(idx)
    /\ Logged("on_ep", "")
    /\ UNCHANGED <<fullscreen, current_show, ep_list, tbl, duration, cd_sec>>

\* ------------------------------------------------------------ player view
\* (mutant: the cancel test never fires)
CancelCdNever(pos) == FALSE

\* on_pos, first test: counting down and the position is before the window
CancelCd(pos) == cd_started /\ duration # 0 /\ pos < duration - COUNT_MS

\* (mutant: the start test without its "not self.cd_started" guard)
StartCdUnguarded(pos) == duration # 0 /\ pos >= duration - COUNT_MS

\* on_pos, second test (evaluated after the first has cleared cd_started)
StartCd(pos) ==
    /\ ~(cd_started /\ ~CancelCd(pos))
    /\ duration # 0
    /\ pos >= duration - COUNT_MS

\* (mutant: the watched threshold is never met)
PastWatchThreshNever(pos) == FALSE

\* (mutant: > for >=)
PastWatchThreshStrict(pos) == pos > duration - WATCH_THRESH

\* on_pos, last test: the position is inside the watched threshold
PastWatchThresh(pos) == pos >= duration - WATCH_THRESH

\* the branch of the countdown tests on_pos takes
PosBranch(pos) ==
    IF CancelCd(pos) THEN "cancel" ELSE IF StartCd(pos) THEN "start" ELSE "none"

\* on_pos(pos): the handler of positionChanged
on_pos(pos) ==
    /\ cd_started' = IF CancelCd(pos) THEN FALSE
                     ELSE IF StartCd(pos) THEN TRUE ELSE cd_started
    /\ timer_active' = IF CancelCd(pos) THEN FALSE
                       ELSE IF StartCd(pos) THEN TRUE ELSE timer_active
    /\ toast_visible' = IF CancelCd(pos) THEN FALSE
                        ELSE IF StartCd(pos) THEN TRUE ELSE toast_visible
    /\ cd_sec' = IF StartCd(pos) THEN COUNT_START ELSE cd_sec
    /\ tbl' = IF PastWatchThresh(pos)
              THEN save_pos(tbl, current_path, ToSecs(pos), <<TRUE>>)
              ELSE tbl

\* positionChanged while playing: the position moves on and is reported
pos_advance ==
    /\ pb = "Playing"
    /\ player_pos < EpDuration(current_path)
    /\ player_pos' = Min(player_pos + SKIP_MS, EpDuration(current_path))
    /\ on_pos(player_pos')
    /\ end_reported' = (player_pos' = EpDuration(current_path))
    /\ Logged("on_pos", PosBranch(player_pos'))
    /\ UNCHANGED <<view, fullscreen, current_show, current_path, ep_list,
                   next_resume, duration, pb>>

\* positionChanged after setPosition, setSource or stop: the position the
\* player holds is reported
pos_report ==
    /\ current_path # 0
    /\ on_pos(player_pos)
    /\ end_reported' = (player_pos = EpDuration(current_path))
    /\ Logged("on_pos", PosBranch(player_pos))
    /\ UNCHANGED <<view, fullscreen, current_show, current_path, ep_list,
                   next_resume, duration, player_pos, pb>>

\* durationChanged: lambda d: setattr(self,'duration',d), with the length
\* of the loaded media
duration_changed ==
    /\ current_path # 0
    /\ view = 2
    /\ duration # EpDuration(current_path)
    /\ duration' = EpDuration(current_path)
    /\ UNCHANGED end_reported
    /\ Logged("durationChanged", "")
    /\ UNCHANGED <<view, fullscreen, current_show, current_path, ep_list,
                   tbl, next_resume, cd_started, cd_sec, timer_active,
                   toast_visible, player_pos, pb>>

\* (mutant: the decrement is lost)
CountDownStuck(n) == n

\* _tick: self.cd_sec -= 1
CountDown(n) == n - 1

\* (mutant: the tick counts whatever the transport does)
TickingAlways == TRUE

\* _tick: the tick counts only in PlayingState
Ticking == pb = "Playing"

\* _tick: the handler of cd_timer.timeout
tick ==
    /\ timer_active
    /\ cd_sec > -MaxUnderflow
    /\ IF ~Ticking
       THEN UNCHANGED <<cd_sec, toast_visible, timer_active>>
       ELSE /\ cd_sec' = CountDown(cd_sec)
            /\ toast_visible' = IF cd_sec' > 0 THEN TRUE ELSE toast_visible
            /\ timer_active' = (cd_sec' > 0)
    /\ UNCHANGED end_reported
    /\ Logged("tick", IF Ticking THEN "count" ELSE "idle")
    /\ UNCHANGED <<view, fullscreen, current_show, current_path, ep_list,
                   tbl, next_resume, duration, cd_started, player_pos, pb>>

\* (mutant: no episode has a successor)
HasNextNever(i) == FALSE

\* (mutant: <= for <)
HasNextOffByOne(i) == i <= NumEps

\* next_ep: i < len(paths)-1, for the 0-based index i - 1
HasNext(i) == i < NumEps

\* prev_ep: i > 0, for the 0-based index i - 1
HasPrev(i) == i > 1

\* (mutant: the seek is issued whatever the pending offset)
HasResumeAlways == TRUE

\* on_status: "and self.next_resume"
HasResume == next_resume # 0

\* on_status(RESUME_STATUS): BufferedMedia reported for the loaded source
on_status_buffered ==
    /\ view = 2
    /\ pb # "Stopped"
    /\ IF HasResume
       THEN /\ player_pos' = SetPosition(ToMs(next_resume))
            /\ next_resume' = 0
       ELSE UNCHANGED <<player_pos, next_resume>>
    /\ Moved
    /\ Logged("on_status_buffered",
              IF HasResume THEN "seek" ELSE "none")
    /\ UNCHANGED <<view, fullscreen, current_show, current_path, ep_list,
                   tbl, duration, cd_started, cd_sec, timer_active,
                   toast_visible, pb>>

\* on_status(END_OF_MEDIA): the transport played to the end and stopped,
\* having reported the end position through positionChanged first;
\* toast.hide_toast(); next_ep()
on_status_end ==
    /\ view = 2
    /\ pb = "Playing"
    /\ player_pos = EpDuration(current_path)
    /\ end_reported
    /\ IF HasNext(current_path)
       THEN /\ next_resume' = ResumeOffset(tbl, current_path + 1)
            /\ start_play(current_path + 1)
       ELSE /\ pb' = "Stopped"
            /\ toast_visible' = FALSE
            /\ UNCHANGED <<current_path, view, player_pos, cd_started,
                           timer_active, next_resume, end_reported>>
    /\ Logged("on_status_end",
              IF HasNext(current_path) THEN "moved" ELSE "stay")
    /\ UNCHANGED <<fullscreen, current_show, ep_list, tbl, duration, cd_sec>>

\* seek(v): the slider was dragged to v
seek(v) ==
    /\ view = 2
    /\ IF duration # 0
       THEN player_pos' = SetPosition((v * duration) \div SLIDER_MAX)
       ELSE UNCHANGED player_pos
    /\ Moved
    /\ Logged("seek", "")
    /\ UNCHANGED <<view, fullscreen, current_show, current_path, ep_list,
                   tbl, next_resume, duration, cd_started, cd_sec,
                   timer_active, toast_visible, pb>>

\* (mutant: the save leaves the watched flag of the row as it is)
SaveAfterJumpKeepsFlag(pos) ==
    IF pos < duration - WATCH_THRESH
    THEN save_pos(tbl, current_path, ToSecs(pos), <<>>)
    ELSE tbl

\* the save of rewind and skip: only below the watched threshold
SaveAfterJump(pos) ==
    IF pos < duration - WATCH_THRESH
    THEN save_pos(tbl, current_path, ToSecs(pos), <<FALSE>>)
    ELSE tbl

\* rewind: "<< 5s" button or Left key
rewind ==
    /\ view = 2
    /\ player_pos' = SetPosition(Max(0, player_pos - SKIP_MS))
    /\ tbl' = SaveAfterJump(player_pos')
    /\ Moved
    /\ Logged("rewind", "")
    /\ UNCHANGED <<view, fullscreen, current_show, current_path, ep_list,
                   next_resume, duration, cd_started, cd_sec, timer_active,
                   toast_visible, pb>>

\* skip: "5s >>" button or Right key
skip ==
    /\ view = 2
    /\ player_pos' = SetPosition(Min(duration, player_pos + SKIP_MS))
    /\ tbl' = SaveAfterJump(player_pos')
    /\ Moved
    /\ Logged("skip", "")
    /\ UNCHANGED <<view, fullscreen, current_show, current_path, ep_list,
                   next_resume, duration, cd_started, cd_sec, timer_active,
                   toast_visible, pb>>

\* (mutant: play restarts the timer whether or not a countdown is on)
ResumeCdAlways == TRUE

\* play_pause: "if self.cd_started" before cd_timer.start()
ResumeCd == cd_started

\* play_pause: button, or Return / Enter / Space
play_pause ==
    /\ view = 2
    /\ IF pb = "Playing"
       THEN /\ pb' = "Paused"
            /\ timer_active' = FALSE
            /\ UNCHANGED player_pos
       ELSE /\ pb' = "Playing"
            \* play() on a stopped player starts from the beginning
            /\ player_pos' = IF pb = "Stopped" THEN 0 ELSE player_pos
            /\ timer_active' = IF ResumeCd THEN TRUE ELSE timer_active
    /\ Moved
    /\ Logged("play_pause", IF pb = "Playing" THEN "pause" ELSE "play")
    /\ UNCHANGED <<view, fullscreen, current_show, current_path, ep_list,
                   tbl, next_resume, duration, cd_started, cd_sec,
                   toast_visible>>

\* prev_ep: "Prev Ep" button
prev_ep ==
    /\ view = 2
    /\ IF HasPrev(current_path)
       THEN /\ next_resume' = ResumeOffset(tbl, current_path - 1)
            /\ start_play(current_path - 1)
       ELSE UNCHANGED <<next_resume, current_path, view, player_pos, pb,
                        cd_started, toast_visible, timer_active,
                        end_reported>>
    /\ Logged("prev_ep",
              IF HasPrev(current_path) THEN "moved" ELSE "stay")
    /\ UNCHANGED <<fullscreen, current_show, ep_list, tbl, duration, cd_sec>>

\* next_ep: "Next Ep" button
next_ep ==
    /\ view = 2
    /\ IF HasNext(current_path)
       THEN /\ next_resume' = ResumeOffset(tbl, current_path + 1)
            /\ start_play(current_path + 1)
       ELSE UNCHANGED <<next_resume, current_path, view, player_pos, pb,
                        cd_started, toast_visible, timer_active,
                        end_reported>>
    /\ Logged("next_ep",
              IF HasNext(current_path) THEN "moved" ELSE "stay")
    /\ UNCHANGED <<fullscreen, current_show, ep_list, tbl, duration, cd_sec>>

\* toggle_fullscreen: button, or double click on the video
toggle_fullscreen ==
    /\ view = 2
    /\ fullscreen' = ~fullscreen
    /\ UNCHANGED end_reported
    /\ Logged("toggle_fullscreen", "")
    /\ UNCHANGED <<view, current_show, current_path, ep_list, tbl,
                   next_resume, duration, cd_started, cd_sec, timer_active,
                   toast_visible, player_pos, pb>>

\* (mutant: > for >=)
ExitWatchedStrict(pos) == pos > duration - WATCH_THRESH

\* the watched flag confirm_exit saves with the position
ExitWatched(pos) == pos >= duration - WATCH_THRESH

\* confirm_exit: "Exit" button or Escape; yes is the answer to the dialog
confirm_exit(yes) ==
    /\ view = 2
    /\ IF fullscreen
       THEN /\ fullscreen' = FALSE
            /\ UNCHANGED <<tbl, pb, player_pos, view>>
       ELSE /\ UNCHANGED fullscreen
            /\ IF yes
               THEN /\ tbl' = save_pos(tbl, current_path, ToSecs(player_pos),
                                       <<ExitWatched(player_pos)>>)
                    \* player.stop() puts the position back to 0
                    /\ pb' = "Stopped"
                    /\ player_pos' = 0
                    /\ view' = 1
               ELSE /\ pb' = "Playing"
                    /\ player_pos' = IF pb = "Stopped" THEN 0 ELSE player_pos
                    /\ UNCHANGED <<tbl, view>>
    /\ Moved
    /\ Logged("confirm_exit",
              IF fullscreen THEN "fullscreen"
              ELSE IF yes THEN "yes" ELSE "no")
    /\ UNCHANGED <<current_show, current_path, ep_list, next_resume, duration,
                   cd_started, cd_sec, timer_active, toast_visible>>

\* -------------------------------------------------------------------- Next
Next ==
    \/ on_show
    \/ refresh_episodes
    \/ back_to_shows
    \/ \E idx \in Eps : on_ep(idx)
    \/ pos_advance
    \/ pos_report
    \/ duration_changed
    \/ tick
    \/ on_status_buffered
    \/ on_status_end
    \/ \E v \in SliderVals : seek(v)
    \/ rewind
    \/ skip
    \/ play_pause
    \/ prev_ep
    \/ next_ep
    \/ toggle_fullscreen
    \/ \E yes \in BOOLEAN : confirm_exit(yes)

\* ---------------------------------------------------------- specifications
\* the program with no handler observed
Init == Init0 /\ obs = {}
Spec == Init /\ [][Next]_vars

\* the program with the handlers that select an episode observed
InitSelect == Init0 /\ obs = {"on_ep", "prev_ep", "next_ep", "on_status_end"}
SpecSelect == InitSelect /\ [][Next]_vars

\* the program with the position handler observed
InitPos == Init0 /\ obs = {"on_pos"}
SpecPos == InitPos /\ [][Next]_vars

\* the program with the countdown timer's handler observed
InitTick == Init0 /\ obs = {"tick"}
SpecTick == InitTick /\ [][Next]_vars

\* the program with the exit handler and the list selection observed
InitExit == Init0 /\ obs = {"confirm_exit", "on_ep"}
SpecExit == InitExit /\ [][Next]_vars

\* the program with the ready-to-seek status handler observed
InitResume == Init0 /\ obs = {"on_status_buffered"}
SpecResume == InitResume /\ [][Next]_vars

\* the program with the skip and rewind handlers observed
InitJump == Init0 /\ obs = {"skip", "rewind"}
SpecJump == InitJump /\ [][Next]_vars

\* the program with the slider's handler observed
InitSeek == Init0 /\ obs = {"seek"}
SpecSeek == InitSeek /\ [][Next]_vars

\* the program with the countdown tick and the play / pause handler observed
InitPause == Init0 /\ obs = {"tick", "play_pause"}
SpecPause == InitPause /\ [][Next]_vars

\* the progress store on its own: save_pos called with any arguments, and
\* the episode list refreshed from it; the state is the one on_show leaves
StoreSecs == {0, 14, 15, 40}
StoreWat == {<<>>, <<TRUE>>, <<FALSE>>}

store_put(path, secs, wat) ==
    /\ tbl' = save_pos(tbl, path, secs, wat)
    /\ UNCHANGED end_reported
    /\ Logged("save_pos", <<path, secs, wat>>)
    /\ UNCHANGED <<view, fullscreen, current_show, current_path, ep_list,
                   next_resume, duration, cd_started, cd_sec, timer_active,
                   toast_visible, player_pos, pb>>

NextStore ==
    \/ \E path \in Eps, secs \in StoreSecs, wat \in StoreWat :
          store_put(path, secs, wat)
    \/ refresh_episodes

InitStore ==
    /\ view = 1
    /\ fullscreen = FALSE
    /\ current_show = 1
    /\ current_path = 0
    /\ ep_list = ListItems({})
    /\ tbl = {}
    /\ next_resume = 0
    /\ duration = 0
    /\ cd_started = FALSE
    /\ cd_sec = COUNT_START
    /\ timer_active = FALSE
    /\ toast_visible = FALSE
    /\ player_pos = 0
    /\ pb = "Stopped"
    /\ end_reported = FALSE
    /\ last = [op |-> "init", how |-> ""]
    /\ obs = {"save_pos", "refresh_episodes"}

SpecStore == InitStore /\ [][NextStore]_vars

\* ------------------------------------------------------------ sanity
\* every position the player holds, and every position stored, is a whole
\* number of seconds inside the media, so ToSecs and ToMs are exact
PositionsWholeSeconds ==
    /\ player_pos % 1000 = 0
    /\ player_pos >= 0
    /\ current_path # 0 => player_pos <= EpDuration(current_path)
    /\ \A r \in tbl : ToMs(r.last_pos) \in 0..EpDuration(r.path)
    /\ \E e \in Eps : ToMs(next_resume) \in 0..EpDuration(e)

\* ------------------------------------------------------------------ claims
\* the stored row of an episode, as a set (empty when there is none)
RowsOf(t, path) == {r \in t : r.path = path}

\* C1: whenever an episode is selected for playback (on_ep, or prev_ep /
\* next_ep that move, also when next_ep is called at the end of the
\* content), the pending resume offset becomes 0 when the
\* episode's stored row has watched set, whatever its last position, the
\* stored last position when it has not, and 0 when there is no row.
C1_SelectSetsResume ==
    [][(\/ last'.op = "on_ep"
        \/ /\ last'.op \in {"prev_ep", "next_ep", "on_status_end"}
           /\ last'.how = "moved")
       => /\ \A r \in RowsOf(tbl, current_path') :
                next_resume' = IF r.watched THEN 0 ELSE r.last_pos
          /\ RowsOf(tbl, current_path') = {} => next_resume' = 0
          /\ tbl' = tbl]_vars

\* C1 witness: an episode stored as watched at a position past 0 has just
\* been selected, and the pending resume offset is 0
C1_Witness ==
    /\ last.op \in {"on_ep", "next_ep", "prev_ep"}
    /\ last.how # "stay"
    /\ next_resume = 0
    /\ \E r \in RowsOf(tbl, current_path) :
           /\ r.watched
           /\ r.last_pos > 0
           /\ ToMs(r.last_pos) >= EpDuration(current_path) - WATCH_THRESH

\* C2: after a position tick handled with position >= duration - 45 s the
\* current episode's row has watched set and holds the ticked position;
\* and no position tick turns a stored watched flag back off.
C2_TickMarksWatched ==
    [][last'.op = "on_pos"
       => /\ player_pos' >= duration - WATCH_THRESH
             => /\ RowsOf(tbl', current_path) # {}
                /\ \A r \in RowsOf(tbl', current_path) :
                       r.watched /\ ToMs(r.last_pos) = player_pos'
          /\ \A r \in tbl : r.watched
                => /\ RowsOf(tbl', r.path) # {}
                   /\ \A q \in RowsOf(tbl', r.path) : q.watched]_vars

\* C2 witness: a tick exactly 45 s before the end of the known duration has
\* been handled, and the row is watched at that position
C2_Witness ==
    /\ last.op = "on_pos"
    /\ duration = EpDuration(current_path)
    /\ duration > WATCH_THRESH
    /\ player_pos = duration - WATCH_THRESH
    /\ \E r \in RowsOf(tbl, current_path) :
           r.watched /\ ToMs(r.last_pos) = player_pos

\* C4: the countdown is entered once per approach: a tick with a known
\* duration inside the last 5 s while not counting down sets cd_started,
\* puts cd_sec to 5, shows the toast and starts the timer; a tick inside
\* the window while counting down leaves cd_sec and the timer alone.
C4_CountdownEnteredOnce ==
    [][(last'.op = "on_pos" /\ duration # 0
        /\ player_pos' >= duration - COUNT_MS)
       => /\ ~cd_started
             => /\ cd_started' /\ cd_sec' = COUNT_START
                /\ toast_visible' /\ timer_active'
          /\ cd_started
             => /\ cd_started' /\ cd_sec' = cd_sec
                /\ timer_active' = timer_active]_vars

\* C4 witness: a tick inside the window has been handled while the
\* countdown, already below 5 with its timer stopped, stayed as it was
C4_Witness ==
    /\ last.op = "on_pos" /\ last.how = "none"
    /\ duration = EpDuration(current_path)
    /\ player_pos >= duration - COUNT_MS
    /\ cd_started /\ cd_sec < COUNT_START /\ ~timer_active

\* C5: a tick before the window (position < duration - 5 s) while the
\* countdown is active cancels it: cd_started off, timer stopped, toast
\* hidden; the next tick inside the window starts again from 5.
C5_RewindCancelsCountdown ==
    [][last'.op = "on_pos"
       => /\ (cd_started /\ duration # 0
              /\ player_pos' < duration - COUNT_MS)
             => ~cd_started' /\ ~timer_active' /\ ~toast_visible'
          /\ (~cd_started /\ cd_sec < COUNT_START /\ duration # 0
              /\ player_pos' >= duration - COUNT_MS)
             => cd_started' /\ cd_sec' = COUNT_START /\ timer_active']_vars

\* C5 witness: a tick has cancelled a countdown that had counted below 5
C5_Witness ==
    /\ last.op = "on_pos" /\ last.how = "cancel"
    /\ cd_sec < COUNT_START
    /\ ~cd_started /\ ~timer_active /\ ~toast_visible

C6_BoundaryNoOp ==
    [][/\ (\/ last'.op = "next_ep" /\ current_path = NumEps
           \/ last'.op = "prev_ep" /\ current_path = 1)
          => UNCHANGED <<current_path, next_resume, cd_started, cd_sec,
                         timer_active, toast_visible, tbl, view, duration,
                         player_pos, pb>>
       /\ (last'.op = "on_status_end" /\ current_path = NumEps)
          => UNCHANGED <<current_path, next_resume, tbl, view>>]_vars

\* C6 witness: next_ep has run on the last episode in the middle of a
\* countdown, and the session is where it was
C6_Witness ==
    /\ last.op = "next_ep" /\ last.how = "stay"
    /\ current_path = NumEps
    /\ view = 2 /\ cd_started /\ timer_active /\ player_pos > 0

\* C7: a confirmed exit outside fullscreen stores, for the current episode,
\* the position and watched = (position >= duration - 45 s) and shows the
\* episode list; a declined one leaves the store alone; selecting the same
\* episode right after an exit that stored it unwatched makes the stored
\* position the pending resume offset.
C7_ExitPersists ==
    [][/\ (last'.op = "confirm_exit" /\ last'.how = "yes")
          => /\ view' = 1
             /\ ~fullscreen
             /\ RowsOf(tbl', current_path) # {}
             /\ \A r \in RowsOf(tbl', current_path) :
                    /\ ToMs(r.last_pos) = player_pos
                    /\ r.watched = (player_pos >= duration - WATCH_THRESH)
             /\ \A e \in Eps \ {current_path} :
                    RowsOf(tbl', e) = RowsOf(tbl, e)
       /\ (last'.op = "confirm_exit" /\ last'.how = "no") => tbl' = tbl
       /\ (/\ last.op = "confirm_exit" /\ last.how = "yes"
           /\ last'.op = "on_ep" /\ current_path' = current_path)
          => \A r \in RowsOf(tbl, current_path) :
                ~r.watched => next_resume' = r.last_pos]_vars

\* C7 witness: the exit was confirmed one step (5 s) before the watched
\* threshold of the known duration, and the row holds that position,
\* not watched
C7_Witness ==
    /\ last.op = "confirm_exit" /\ last.how = "yes"
    /\ view = 1
    /\ duration = EpDuration(current_path)
    /\ \E r \in RowsOf(tbl, current_path) :
           /\ ~r.watched
           /\ r.last_pos > 0
           /\ ToMs(r.last_pos) = duration - WATCH_THRESH - SKIP_MS

\* C8: save_pos without wat sets the position only and keeps the watched
\* flag of an existing row (a new row gets watched = FALSE); save_pos with
\* wat overwrites both; every path has at most one row, the rows of the
\* other paths stay, and load_pos returns what was written last.
C8_PutSemantics ==
    [][last'.op = "save_pos"
       => LET path == last'.how[1]
              secs == last'.how[2]
              wat  == last'.how[3]
              kept == \E q \in RowsOf(tbl, path) : q.watched
              flag == IF wat = <<>> THEN kept ELSE wat[1]
          IN  /\ RowsOf(tbl', path) =
                    {[path |-> path, last_pos |-> secs, watched |-> flag]}
              /\ load_pos(tbl', path) = <<secs, flag>>
              /\ \A e \in Eps \ {path} : RowsOf(tbl', e) = RowsOf(tbl, e)
              /\ \A e \in Eps : Cardinality(RowsOf(tbl', e)) <= 1]_vars

\* C8 witness: a save_pos without wat has moved the position of a row that
\* was, and still is, watched
C8_Witness ==
    /\ last.op = "save_pos"
    /\ last.how[3] = <<>>
    /\ \E r \in RowsOf(tbl, last.how[1]) :
           r.watched /\ r.last_pos = last.how[2] /\ r.last_pos > 0

\* C9: the marker of an episode is a function of its row alone: "done" when
\* watched, else "in-progress" from 15 s on, else "unseen"; an episode
\* without a row reads as (0, FALSE) and is "unseen".
C9_MarkerOfRecord ==
    last.op = "refresh_episodes"
    => \A e \in Eps :
          /\ RowsOf(tbl, e) = {}
             => load_pos(tbl, e) = <<0, FALSE>> /\ ep_list[e] = "unseen"
          /\ \A r \in RowsOf(tbl, e) :
                ep_list[e] = IF r.watched THEN "done"
                             ELSE IF r.last_pos >= 15 THEN "in-progress"
                             ELSE "unseen"

\* C9 witness: a refresh has listed an unwatched row at exactly 15 s as
\* "in-progress" and an episode without a row as "unseen"
C9_Witness ==
    /\ last.op = "refresh_episodes"
    /\ \E e \in Eps :
          /\ ep_list[e] = "in-progress"
          /\ \E r \in RowsOf(tbl, e) : ~r.watched /\ r.last_pos = 15
    /\ \E e \in Eps : RowsOf(tbl, e) = {} /\ ep_list[e] = "unseen"

\* C10: whenever the episode list is the view shown, the marker listed for
\* each episode is the one its stored row gives.
C10_ListNeverStale ==
    view = 1 => \A e \in Eps : ep_list[e] = Marker(load_pos(tbl, e))

\* C11: whenever the end-of-media handler moves the session from an episode
\* to its successor, the row of the episode left has watched set at that
\* moment, so its marker is "done".  (The countdown tick never moves the
\* session, see C3; the end-of-media handler is the only automatic advance.)
C11_AdvanceLeavesWatched ==
    [][(last'.op = "on_status_end" /\ last'.how = "moved")
       => /\ current_path' # current_path
          /\ \E r \in RowsOf(tbl, current_path) : r.watched
          /\ Marker(load_pos(tbl', current_path)) = "done"]_vars

\* C11 witness: the session has just moved on from an episode played to its
\* end with its duration known, and that episode's row is watched at the end
C11_Witness ==
    /\ last.op = "on_status_end" /\ last.how = "moved"
    /\ current_path > 1
    /\ duration = EpDuration(current_path - 1)
    /\ \E r \in RowsOf(tbl, current_path - 1) :
           r.watched /\ ToMs(r.last_pos) = duration

\* C12: a ready-to-seek status with a pending resume offset other than 0
\* seeks once to that offset and puts the pending offset to 0; one with the
\* pending offset 0 seeks nowhere; and the pending offset becomes non-zero
\* only in a step that loads an episode, so every later ready-to-seek status
\* of the same load finds 0 and seeks nowhere.
C12_ResumeConsumedOnce ==
    [][/\ last'.op = "on_status_buffered"
          => /\ next_resume # 0
                => player_pos' = ToMs(next_resume) /\ next_resume' = 0
             /\ next_resume = 0 => UNCHANGED <<player_pos, next_resume>>
             /\ UNCHANGED <<current_path, tbl, pb>>
       /\ (next_resume' # next_resume /\ next_resume' # 0)
          => /\ player_pos' = 0 /\ pb' = "Playing" /\ view' = 2
             /\ next_resume' = ResumeOffset(tbl, current_path')]_vars

\* C12 witness: a ready-to-seek status has consumed the resume: the handler
\* issued the seek, the player is at the stored offset of the episode and
\* nothing is pending any more
C12_Witness ==
    /\ last.op = "on_status_buffered" /\ last.how = "seek"
    /\ next_resume = 0
    /\ player_pos > 0
    /\ \E r \in RowsOf(tbl, current_path) :
           ~r.watched /\ ToMs(r.last_pos) = player_pos

\* C13: skip and rewind leave the position inside the media, 5 s further
\* or back when the duration is known (cut at the end and at 0); when the
\* new position is < duration - 45 s the row of the current episode becomes
\* (new position, not watched) whatever it held before; when it is not, the
\* handler leaves the store alone.  The rows of other episodes stay.
C13_JumpClampsAndSaves ==
    [][last'.op \in {"skip", "rewind"}
       => /\ player_pos' \in 0..EpDuration(current_path)
          /\ last'.op = "rewind" => player_pos' = Max(player_pos - SKIP_MS, 0)
          /\ (last'.op = "skip" /\ duration = EpDuration(current_path))
             => player_pos' = Min(player_pos + SKIP_MS, duration)
          /\ player_pos' < duration - WATCH_THRESH
             => RowsOf(tbl', current_path) =
                    {[path |-> current_path,
                      last_pos |-> ToSecs(player_pos'),
                      watched |-> FALSE]}
          /\ player_pos' >= duration - WATCH_THRESH => tbl' = tbl
          /\ \A e \in Eps \ {current_path} : RowsOf(tbl', e) = RowsOf(tbl, e)
          /\ UNCHANGED current_path]_vars

\* C13 witness: a rewind has just taken the position one step (5 s) below
\* the watched threshold of the known duration, and the row of the episode
\* holds that position, not watched
C13_Witness ==
    /\ last.op = "rewind"
    /\ duration = EpDuration(current_path)
    /\ player_pos > 0
    /\ player_pos = duration - WATCH_THRESH - SKIP_MS
    /\ \E r \in RowsOf(tbl, current_path) :
           ~r.watched /\ ToMs(r.last_pos) = player_pos

\* C14: a slider seek that lands below duration - 45 s, and a step that
\* takes the player from one episode to another (prev_ep, next_ep) while
\* the position of the episode left is below duration - 45 s, leave (that
\* position, not watched) in the store for the episode that was playing.
C14_SeekAndNavPersist ==
    [][/\ (last'.op = "seek" /\ duration # 0
           /\ player_pos' < duration - WATCH_THRESH)
          => RowsOf(tbl', current_path) =
                 {[path |-> current_path,
                   last_pos |-> ToSecs(player_pos'),
                   watched |-> FALSE]}
       /\ (view = 2 /\ current_path' # current_path
           /\ player_pos < duration - WATCH_THRESH)
          => RowsOf(tbl', current_path) =
                 {[path |-> current_path,
                   last_pos |-> ToSecs(player_pos),
                   watched |-> FALSE]}]_vars

\* C15: after every step that loads an episode (list selection, prev_ep,
\* next_ep, end-of-media advance) and after every confirmed exit the
\* countdown timer is stopped, cd_started is off and the toast is hidden.
C15_CountdownTornDown ==
    [][/\ (last'.op = "on_ep"
           \/ (view = 2 /\ current_path' # current_path))
          => ~timer_active' /\ ~cd_started' /\ ~toast_visible'
       /\ (last'.op = "confirm_exit" /\ last'.how = "yes")
          => ~timer_active' /\ ~cd_started' /\ ~toast_visible']_vars

\* C16: a countdown tick that finds the transport not playing changes
\* neither cd_sec nor cd_started; play_pause keeps cd_sec and cd_started,
\* pausing stops the timer and playing again with cd_started set restarts
\* it, so the countdown goes on from the value it had (no reset to 5).
C16_PauseSuspendsCountdown ==
    [][/\ (last'.op = "tick" /\ pb # "Playing")
          => UNCHANGED <<cd_sec, cd_started, toast_visible, timer_active>>
       /\ last'.op = "play_pause"
          => /\ UNCHANGED <<cd_sec, cd_started, toast_visible>>
             /\ last'.how = "pause" => ~timer_active' /\ pb' = "Paused"
             /\ last'.how = "play"
                => /\ pb' = "Playing"
                   /\ cd_started => timer_active']_vars

\* C16 witness: play has just been pressed in the middle of a countdown;
\* cd_sec is still between 5 and 0 and the timer runs again
C16_Witness ==
    /\ last.op = "play_pause" /\ last.how = "play"
    /\ cd_started /\ timer_active /\ toast_visible
    /\ cd_sec \in 1..(COUNT_START - 1)
    /\ player_pos > 0

\* C17: the end-of-media handler hides the toast and, when the current
\* episode is not the last, moves at once to the next episode of the
\* catalog with the select rule applied (pending resume offset from the row
\* of the new episode, countdown reset, playing from 0), whatever value the
\* countdown had reached.
C17_EndOfMediaAdvances ==
    [][last'.op = "on_status_end"
       => /\ ~toast_visible'
          /\ current_path < NumEps
             => /\ current_path' = current_path + 1
                /\ \A r \in RowsOf(tbl, current_path + 1) :
                       next_resume' = IF r.watched THEN 0 ELSE r.last_pos
                /\ RowsOf(tbl, current_path + 1) = {} => next_resume' = 0
                /\ ~cd_started' /\ ~timer_active'
                /\ player_pos' = 0 /\ pb' = "Playing" /\ view' = 2]_vars

\* C17 witness: the end of the media has moved the session on while the
\* countdown was half way (cd_sec between 5 and 0), to an episode with an
\* unwatched row whose position is now the pending resume offset
C17_Witness ==
    /\ last.op = "on_status_end" /\ last.how = "moved"
    /\ cd_sec \in 1..(COUNT_START - 1)
    /\ ~cd_started /\ ~timer_active /\ ~toast_visible
    /\ next_resume > 0
    /\ \E r \in RowsOf(tbl, current_path) :
           ~r.watched /\ r.last_pos = next_resume

\* C18: a position tick puts a watched row into the store for the current
\* episode only when self.duration is the length of that episode and the
\* position is within 45 s of it: never while the duration is still 0 or
\* still the length of the episode played before.
C18_WatchedOnlyWithOwnDuration ==
    [][last'.op = "on_pos"
       => \A r \in RowsOf(tbl', current_path) \ tbl :
              r.watched
              => /\ duration = EpDuration(current_path)
                 /\ player_pos' >= EpDuration(current_path) - WATCH_THRESH]_vars

\* C19: in every reachable state cd_sec lies within 0..COUNT_START.
C19_CountdownInRange == cd_sec \in 0..COUNT_START

\* C20: in every reachable state a running countdown timer implies
\* cd_started, and a visible toast implies cd_started.
C20_TimerAndToastImplyStarted ==
    /\ timer_active => cd_started
    /\ toast_visible => cd_started

\* C20 witness: the player is paused in the middle of a countdown: the
\* toast is up, the timer is stopped, cd_started is set and cd_sec has
\* counted below 5
C20_Witness ==
    /\ view = 2 /\ pb = "Paused"
    /\ toast_visible /\ ~timer_active /\ cd_started
    /\ cd_sec \in 1..(COUNT_START - 1)

====
